---- MODULE Spec2Model ----
(***************************************************************************)
(* KisaanMitra: the ManagerAgent pipeline (manager/agent.py), the          *)
(* rule-based FarmPracticesAgent.generate_advice, and the JSON file store  *)
(* and recommendation composer of FarmerProfileAgent.                      *)
(*                                                                         *)
(* Text is a tuple of one-character strings, so that Python's substring    *)
(* test  "rain" in condition  and  str.lower()  are computed, not assumed. *)
(* A report (an f-string) is a tuple of its pieces.                        *)
(***************************************************************************)
EXTENDS Integers, Sequences, FiniteSets, TLC

VARIABLES file, call, lastPut

vars == <<file, call, lastPut>>

(***************************************************************************)
(* Bounds and program constants                                            *)
(***************************************************************************)
\* Number of farmer ids the callers choose from; id n stands for "farmer_00n".
NumFarmers == 2

\* manager/agent.py line 73: farmer_id = "farmer_001"
farmer_001 == 1

\* manager/agent.py line 74: location = "Andhra Pradesh"
location == "Andhra Pradesh"

FarmerIds == 1..NumFarmers

\* The threads of control.  The program is single threaded (caller "A");
\* caller "B" only acts in SpecConcurrent.
Callers == {"A", "B"}

(***************************************************************************)
(* Python values                                                           *)
(***************************************************************************)
\* A profile is a Python dict: a set of fields, each a key and a value.
\* Keys are str or int; values are str, or a set (which json cannot encode).
StrKey(t) == [type |-> "str", text |-> t]
IntKey(t) == [type |-> "int", text |-> t]
StrVal(t) == [type |-> "str", text |-> t]
SetVal(t) == [type |-> "set", text |-> t]
Field(k, v) == [key |-> k, val |-> v]

EmptyProfile == {}
RamProfile == {Field(StrKey("name"), StrVal("Ram"))}
IntKeyProfile == {Field(IntKey("1"), StrVal("x"))}
SetProfile == {Field(StrKey("preferred_crops"), SetVal("groundnut"))}

\* The profiles a caller passes to create_or_update_profile.
Profiles == {EmptyProfile, RamProfile, IntKeyProfile, SetProfile}

\* json.dump raises TypeError on a value it cannot encode.
Serializable(p) == \A f \in p : f.val.type # "set"

\* json.dump writes every dict key as a string (1 becomes "1"); json.load
\* gives the strings back.
JsonKey(k) == StrKey(k.text)
JsonRoundTrip(p) == {Field(JsonKey(f.key), f.val) : f \in p}

\* A db is a Python dict from farmer id to profile: a function on a subset
\* of FarmerIds.
EmptyDb == [i \in {} |-> EmptyProfile]
JsonRoundTripDb(db) == [i \in DOMAIN db |-> JsonRoundTrip(db[i])]
SerializableDb(db) == \A i \in DOMAIN db : Serializable(db[i])

\* The store file: missing, undecodable bytes, zero bytes (just truncated by
\* open(..., "w")), a prefix of a JSON text, or one complete JSON object.
\* The program itself only ever writes an object (or a prefix of one); a file
\* holding some other valid JSON value (a list, null) is not a state of it.
NoFile == [kind |-> "missing", data |-> EmptyDb]
CorruptFile == [kind |-> "corrupt", data |-> EmptyDb]
TruncatedFile == [kind |-> "empty", data |-> EmptyDb]
PartialFile == [kind |-> "partial", data |-> EmptyDb]
ObjectFile(db) == [kind |-> "object", data |-> JsonRoundTripDb(db)]
IsObject(f) == f.kind = "object"

\* Return values, all of one shape: kind says which Python value it is.
\*   "unset"  no value yet            "None"   None
\*   "dict"   a profile (val)         "True"/"False"  bool
\*   "error"  {"error": parts}        "recommendation"  {"recommendation": text}
\*   "str"    a string made of the pieces in parts
\*   "raise"  the call raised the exception named text
Value(kind, val, text, parts) ==
    [kind |-> kind, val |-> val, text |-> text, parts |-> parts]
Unset == Value("unset", EmptyProfile, "", <<>>)
None == Value("None", EmptyProfile, "", <<>>)
Dict(p) == Value("dict", p, "", <<>>)
Bool(b) == Value(IF b THEN "True" ELSE "False", EmptyProfile, "", <<>>)
ErrorResult(parts) == Value("error", EmptyProfile, "", parts)
Recommendation(out) == Value("recommendation", EmptyProfile, out, <<>>)
Str(parts) == Value("str", EmptyProfile, "", parts)
Raise(e) == Value("raise", EmptyProfile, e, <<>>)

(***************************************************************************)
(* Text                                                                    *)
(***************************************************************************)
UpperCase == <<"A","B","C","D","E","F","G","H","I","J","K","L","M",
               "N","O","P","Q","R","S","T","U","V","W","X","Y","Z">>
LowerCase == <<"a","b","c","d","e","f","g","h","i","j","k","l","m",
               "n","o","p","q","r","s","t","u","v","w","x","y","z">>

\* str.lower(), one character
LowerChar(ch) ==
    IF \E i \in DOMAIN UpperCase : UpperCase[i] = ch
    THEN LowerCase[CHOOSE i \in DOMAIN UpperCase : UpperCase[i] = ch]
    ELSE ch

\* str.lower()
Lower(t) == [i \in DOMAIN t |-> LowerChar(t[i])]

\* Python's  s in t  on strings: s occurs in t as a contiguous substring.
Contains(t, s) ==
    \E i \in 0..(Len(t) - Len(s)) : SubSeq(t, i + 1, i + Len(s)) = s

rain == <<"r","a","i","n">>
dry == <<"d","r","y">>
sunny == <<"s","u","n","n","y">>
humid == <<"h","u","m","i","d">>

\* The condition texts the weather inputs carry.
ConditionTexts ==
    { <<>>,
      <<"L","i","g","h","t"," ","R","a","i","n">>,
      <<"D","R","Y">>,
      <<"S","u","n","n","y">>,
      <<"H","u","m","i","d">>,
      <<"h","u","m","i","d"," ","r","a","i","n">>,
      <<"d","r","y"," ","r","a","i","n">>,
      <<"c","l","e","a","r">> }

(***************************************************************************)
(* FarmPracticesAgent.generate_advice                                      *)
(***************************************************************************)
\* soil: a dict whose "pH" is missing, a number (in tenths) or a string; or
\* None.
Soil(shape, ph, tenths) == [shape |-> shape, ph |-> ph, tenths |-> tenths]

\* SoilAgent.analyze_soil: the static reading, pH 6.8
analyze_soil == Soil("dict", "num", 68)

Soils ==
    { analyze_soil, Soil("dict", "num", 70), Soil("dict", "num", 75),
      Soil("dict", "missing", 0), Soil("dict", "str", 75),
      Soil("None", "missing", 0) }

\* weather, by Python type:
\*   "dict"     cond says whether it has a "condition" that is a str ("str"),
\*              one that is not a str ("other"), or none ("missing"); raw
\*              says whether it has a "raw_output" key; text is the
\*              condition, or else the raw output
\*   "str"      free text
\*   "wrapper"  an object that is neither dict nor str and supports  in  and
\*              [] ; raw says whether it holds "raw_output"
\*   "list"     a list; raw says whether "raw_output" is one of its items
\*   "None"     None (or a number): not iterable
Weather(shape, cond, raw, text) ==
    [shape |-> shape, cond |-> cond, raw |-> raw, text |-> text]

Weathers ==
    { Weather("dict", "str", FALSE, t) : t \in ConditionTexts }
      \cup { Weather("str", "missing", FALSE, t) : t \in ConditionTexts }
      \cup { Weather("dict", "missing", TRUE, t) : t \in ConditionTexts }
      \cup { Weather("wrapper", "missing", TRUE, t) : t \in ConditionTexts }
      \cup { Weather("dict", "missing", FALSE, <<>>),
             Weather("dict", "other", FALSE, <<>>),
             Weather("wrapper", "missing", FALSE, <<>>),
             Weather("list", "missing", FALSE, <<>>),
             Weather("list", "missing", TRUE, <<>>),
             Weather("None", "missing", FALSE, <<>>) }

\* get_prices: the static price table
get_prices == "wheat 2400, rice 2600, soybean 5400"

PADDY == <<"Plant paddy for high yield due to rain and alkaline soil.">>
DROUGHT ==
    <<"Soil looks dry; consider drought-tolerant crops like millets or pulses.">>
PEST ==
    <<"Conditions are humid; maintain pest control and proper ventilation.">>
GENERIC == <<"Proceed with wheat or pulses; monitor moisture regularly.">>
RuleAdvice == {PADDY, DROUGHT, PEST, GENERIC}

\* f"Could not generate advice due to: {e}"
Fallback(e) == <<"Could not generate advice due to: ", e>>

\* Lines 15-25: the condition taken from weather.  err is the exception the
\* extraction raises ("" for none), isStr whether the condition is a str.
Condition(err, isStr, text) == [err |-> err, isStr |-> isStr, text |-> text]

ExtractCondition(weather) ==
    IF weather.shape = "dict"
    THEN \* weather.get("condition", "")
         IF weather.cond = "str" THEN Condition("", TRUE, Lower(weather.text))
         ELSE IF weather.cond = "other" THEN Condition("", FALSE, <<>>)
         ELSE Condition("", TRUE, <<>>)
    ELSE IF weather.shape = "str"
    THEN Condition("", TRUE, Lower(weather.text))
    ELSE \* elif "raw_output" in weather: condition = weather["raw_output"]
         IF weather.shape = "None"
         THEN Condition("TypeError: argument of type 'NoneType' is not iterable",
                        TRUE, <<>>)
         ELSE IF ~weather.raw THEN Condition("", TRUE, <<>>)
         ELSE IF weather.shape = "list"
         THEN Condition("TypeError: list indices must be integers or slices, not str",
                        TRUE, <<>>)
         ELSE Condition("", TRUE, Lower(weather.text))

\* Lines 27-34, given the extracted condition.
ApplyRules(soil, c) ==
    IF soil.shape # "dict"
    THEN Fallback("AttributeError: 'NoneType' object has no attribute 'get'")
    ELSE IF soil.ph = "str"
    THEN Fallback("TypeError: '>' not supported between instances of 'str' and 'int'")
    ELSE IF ~c.isStr
    THEN Fallback("TypeError: argument of type 'NoneType' is not iterable")
    ELSE IF (IF soil.ph = "num" THEN soil.tenths ELSE 70) > 70
            /\ Contains(c.text, rain)
    THEN PADDY
    ELSE IF Contains(c.text, dry) \/ Contains(c.text, sunny) THEN DROUGHT
    ELSE IF Contains(c.text, humid) THEN PEST
    ELSE GENERIC

\* generate_advice(soil, weather, market): never raises (lines 14, 36-37).
generate_advice(soil, weather) ==
    LET c == ExtractCondition(weather)
    IN  IF c.err # "" THEN Fallback(c.err) ELSE ApplyRules(soil, c)

(***************************************************************************)
(* FarmerProfileAgent: the store helpers                                   *)
(***************************************************************************)
\* _read_db: json.load of the file; any exception (no file, undecodable or
\* truncated text) gives {}.
_read_db(f) == IF f.kind = "object" THEN f.data ELSE EmptyDb

\* db.get(farmer_id)
Get(db, fid) == IF fid \in DOMAIN db THEN Dict(db[fid]) ELSE None

\* Mutant of SetKey: a fresh dict with only this entry ( db = {farmer_id:
\* profile} ), the entries read from the file dropped.
SetKeyAlone(db, fid, profile) == [i \in {fid} |-> profile]

\* db[farmer_id] = profile
SetKey(db, fid, profile) ==
    [i \in DOMAIN db \cup {fid} |-> IF i = fid THEN profile ELSE db[i]]

\* Mutant of DelKey: db.clear(), every entry removed.
DelKeyClear(db, fid) == EmptyDb

\* del db[farmer_id]
DelKey(db, fid) == [i \in DOMAIN db \ {fid} |-> db[i]]

\* Mutant of NoProfile: the check left out.
NoProfileNever(profile) == FALSE

\* if not profile: None and the empty dict are both falsy
NoProfile(profile) == profile.kind = "None" \/ profile.val = EmptyProfile

\* {"error": f"No profile found for farmer_id={farmer_id}"}
NoProfileError(fid) ==
    ErrorResult(<<"No profile found for farmer_id=", ToString(fid)>>)

\* {"error": f"Failed to call Gemini: {e}"}
GeminiError(e) == ErrorResult(<<"Failed to call Gemini: ", e>>)

\* What _call_gemini does: it raises (no key, network, HTTP status, bad
\* response), or returns the generated text.
GeminiRaises == {"RuntimeError: GEMINI_API_KEY not set in .env", "HTTPError: 403"}
GeminiTexts == {"Sow groundnut after the first rain.", ""}

(***************************************************************************)
(* ManagerAgent.on_message: the strings it builds                          *)
(***************************************************************************)
\* str() of a Python value inside an f-string
Repr(v) == ToString(v)

\* f"Error: An exception occurred: {e}"
ErrorReply(e) == <<"Error: An exception occurred: ", e>>

\* Mutant of Shown: personalized.get('recommendation', ''), no fallback to
\* the raw result.
ShownTextOnly(personalized) == <<personalized.text>>

\* personalized.get('recommendation', personalized)
Shown(personalized) ==
    IF personalized.kind = "recommendation"
    THEN <<personalized.text>>
    ELSE <<Repr(personalized)>>

\* Mutant of Report: the Market line left out.
ReportWithoutMarket(soil, weather, market, advice, personalized) ==
    <<"KisaanMitra Report", "Region: ", location,
      "Soil Data: ", Repr(soil),
      "Weather: ", Repr(weather),
      "General Advice: ">> \o advice
      \o <<"Personalized Recommendation: ">> \o Shown(personalized)

\* The f-string of lines 100-109.
Report(soil, weather, market, advice, personalized) ==
    <<"KisaanMitra Report", "Region: ", location,
      "Soil Data: ", Repr(soil),
      "Weather: ", Repr(weather),
      "Market: ", market,
      "General Advice: ">> \o advice
      \o <<"Personalized Recommendation: ">> \o Shown(personalized)

\* What a step of the try block may raise.
Exceptions == {"ConnectionError", "JSONDecodeError"}

\* What resp.json() of the weather service can be: any JSON value.
Forecasts == {w \in Weathers : w.shape \in {"dict", "str", "list", "None"}}

(***************************************************************************)
(* State                                                                   *)
(***************************************************************************)
\* One caller's frame: the operation it is in (op), where it is in it (pc),
\* the arguments and locals, the result (ret), and what the properties below
\* need of its history: the file as it was at the call (before), the number
\* of _call_gemini calls made (gemini), the collaborators invoked (calls),
\* the step that raised and its exception (raisedAt, exc), whether another
\* caller wrote the file since this one read it (stale) or since this one
\* opened it for writing (overlapped).
NoSoil == Soil("unset", "missing", 0)
NoWeather == Weather("unset", "missing", FALSE, <<>>)

Idle ==
    [op |-> "none", pc |-> "idle", fid |-> farmer_001, profile |-> EmptyProfile,
     db |-> EmptyDb, ret |-> Unset, before |-> NoFile, gemini |-> 0,
     soil |-> NoSoil, weather |-> NoWeather, market |-> "", advice |-> <<>>,
     personalized |-> Unset, calls |-> <<>>, raisedAt |-> "", exc |-> "",
     stale |-> FALSE, overlapped |-> FALSE]

Finished(c) == call[c].pc \in {"idle", "returned", "raised"}

\* A new frame for operation op entered at pc.
Frame(op, pc, fid) ==
    [Idle EXCEPT !.op = op, !.pc = pc, !.fid = fid, !.before = file]

Init ==
    /\ file \in {NoFile, CorruptFile, ObjectFile(EmptyDb)}
    /\ call = [c \in Callers |-> Idle]
    /\ lastPut = [i \in FarmerIds |-> Unset]

(***************************************************************************)
(* FarmerProfileAgent: the operations, one action per file access          *)
(***************************************************************************)
\* Another caller's completed write, seen from caller d: d's read is stale
\* if d has read and not yet written; d's open file was written under it if
\* d has opened and not yet written.
AfterWriteBy(c, d, frame) ==
    IF d = c THEN frame
    ELSE [call[d] EXCEPT
            !.stale = @ \/ call[d].pc \in {"open", "dump"},
            !.overlapped = @ \/ call[d].pc = "dump"]

\* A caller enters get_profile(farmer_id).
Call_get_profile(c, fid) ==
    /\ Finished(c)
    /\ call' = [call EXCEPT ![c] = Frame("get_profile", "read", fid)]
    /\ UNCHANGED <<file, lastPut>>

\* get_profile: db = self._read_db(); return db.get(farmer_id)
get_profile(c) ==
    /\ call[c].op = "get_profile" /\ call[c].pc = "read"
    /\ call' = [call EXCEPT ![c].db = _read_db(file),
                            ![c].ret = Get(_read_db(file), call[c].fid),
                            ![c].pc = "returned"]
    /\ UNCHANGED <<file, lastPut>>

\* A caller enters create_or_update_profile(farmer_id, profile).
Call_create_or_update_profile(c, fid, profile) ==
    /\ Finished(c)
    /\ call' = [call EXCEPT ![c] =
                  [Frame("create_or_update_profile", "read", fid)
                     EXCEPT !.profile = profile]]
    /\ lastPut' = [lastPut EXCEPT ![fid] = Unset]
    /\ UNCHANGED file

\* create_or_update_profile, lines 61-62: db = self._read_db();
\* db[farmer_id] = profile
create_or_update_profile(c) ==
    /\ call[c].op = "create_or_update_profile" /\ call[c].pc = "read"
    /\ call' = [call EXCEPT
                  ![c].db = SetKey(_read_db(file), call[c].fid, call[c].profile),
                  ![c].pc = "open"]
    /\ UNCHANGED <<file, lastPut>>

\* A caller enters delete_profile(farmer_id).
Call_delete_profile(c, fid) ==
    /\ Finished(c)
    /\ call' = [call EXCEPT ![c] = Frame("delete_profile", "read", fid)]
    /\ lastPut' = [lastPut EXCEPT ![fid] = Unset]
    /\ UNCHANGED file

\* delete_profile, lines 67-69 and 72: db = self._read_db(); if farmer_id in
\* db: del db[farmer_id] (and go on to write); else return False
delete_profile(c) ==
    /\ call[c].op = "delete_profile" /\ call[c].pc = "read"
    /\ LET db == _read_db(file)
       IN  call' = [call EXCEPT ![c] =
             IF call[c].fid \in DOMAIN db
             THEN [@ EXCEPT !.db = DelKey(db, call[c].fid), !.pc = "open"]
             ELSE [@ EXCEPT !.db = db, !.ret = Bool(FALSE), !.pc = "returned"]]
    /\ UNCHANGED <<file, lastPut>>

\* _write_db, line 39: open(self.storage_path, "w") truncates the file.
_write_db_open(c) ==
    /\ call[c].pc = "open"
    /\ file' = TruncatedFile
    /\ call' = [call EXCEPT ![c].pc = "dump"]
    /\ UNCHANGED lastPut

\* What the caller's operation returns once the write is done: line 64,
\* return db[farmer_id]; line 71, return True.
ReturnAfterWrite(frame) ==
    IF frame.op = "create_or_update_profile"
    THEN Dict(frame.db[frame.fid])
    ELSE Bool(TRUE)

\* _write_db, line 40: json.dump(data, f) and the close.  The text goes in
\* piece by piece, so a value json cannot encode leaves a prefix of the text
\* in the file and raises TypeError.  A caller whose open file was written by
\* another caller meanwhile writes over that text from offset 0: the result
\* is its own text, or its own text followed by the rest of the longer one.
_write_db_dump(c, garbled) ==
    /\ call[c].pc = "dump"
    /\ garbled => call[c].overlapped /\ SerializableDb(call[c].db)
    /\ IF SerializableDb(call[c].db)
       THEN /\ file' = IF garbled THEN CorruptFile ELSE ObjectFile(call[c].db)
            /\ call' = [d \in Callers |->
                  AfterWriteBy(c, d,
                     [call[c] EXCEPT !.ret = ReturnAfterWrite(call[c]),
                                     !.pc = "returned"])]
            /\ lastPut' =
                 IF call[c].op = "create_or_update_profile"
                 THEN [lastPut EXCEPT ![call[c].fid] = Dict(call[c].profile)]
                 ELSE lastPut
       ELSE /\ file' = PartialFile
            /\ call' = [d \in Callers |->
                  AfterWriteBy(c, d,
                     [call[c] EXCEPT
                        !.ret = Raise("TypeError: Object of type set is not JSON serializable"),
                        !.pc = "raised"])]
            /\ UNCHANGED lastPut

\* _write_db, line 40, when the operating system fails the write (disk
\* full, I/O error): nothing or a prefix of the text has reached the file,
\* and the OSError propagates to the caller.
_write_db_fails(c, written) ==
    /\ call[c].pc = "dump"
    /\ file' = IF written THEN PartialFile ELSE file
    /\ LET frame == [call[c] EXCEPT
                       !.ret = Raise("OSError: No space left on device"),
                       !.pc = "raised"]
       IN  call' = IF written
                   THEN [d \in Callers |-> AfterWriteBy(c, d, frame)]
                   ELSE [call EXCEPT ![c] = frame]
    /\ UNCHANGED lastPut

(***************************************************************************)
(* FarmerProfileAgent.recommend_for_farmer                                 *)
(***************************************************************************)
\* recommend_for_farmer hands its result to its caller: the outside caller,
\* or on_message (line 95), which goes on to build the report.
ReturnRecommendation(frame, result) ==
    IF frame.op = "on_message"
    THEN [frame EXCEPT !.personalized = result, !.pc = "compose"]
    ELSE [frame EXCEPT !.ret = result, !.pc = "returned"]

\* A caller enters recommend_for_farmer(farmer_id, context).
Call_recommend_for_farmer(c, fid) ==
    /\ Finished(c)
    /\ call' = [call EXCEPT ![c] = Frame("recommend_for_farmer", "recommend", fid)]
    /\ UNCHANGED <<file, lastPut>>

\* Lines 120-131: profile = self.get_profile(farmer_id); if not profile:
\* return the error; else build the prompt.
recommend_for_farmer(c) ==
    /\ call[c].pc = "recommend"
    /\ LET db == _read_db(file)
           profile == Get(db, call[c].fid)
       IN  call' = [call EXCEPT ![c] =
             IF NoProfile(profile)
             THEN ReturnRecommendation([@ EXCEPT !.db = db],
                                       NoProfileError(call[c].fid))
             ELSE [@ EXCEPT !.db = db, !.profile = profile.val, !.pc = "gemini"]]
    /\ UNCHANGED <<file, lastPut>>

\* Lines 133-138, _call_gemini returning text: return {"recommendation": output}
_call_gemini_returns(c, output) ==
    /\ call[c].pc = "gemini"
    /\ call' = [call EXCEPT ![c] =
          ReturnRecommendation([@ EXCEPT !.gemini = @ + 1],
                               Recommendation(output))]
    /\ UNCHANGED <<file, lastPut>>

\* Lines 133-136, _call_gemini raising: return {"error": "Failed to call Gemini: ..."}
_call_gemini_raises(c, e) ==
    /\ call[c].pc = "gemini"
    /\ call' = [call EXCEPT ![c] =
          ReturnRecommendation([@ EXCEPT !.gemini = @ + 1], GeminiError(e))]
    /\ UNCHANGED <<file, lastPut>>

(***************************************************************************)
(* FarmPracticesAgent.generate_advice, called on its own                   *)
(***************************************************************************)
Call_generate_advice(c, soil, weather) ==
    /\ Finished(c)
    /\ call' = [call EXCEPT ![c] =
          [Frame("generate_advice", "returned", farmer_001) EXCEPT
             !.soil = soil, !.weather = weather,
             !.ret = Str(generate_advice(soil, weather))]]
    /\ UNCHANGED <<file, lastPut>>

(***************************************************************************)
(* ManagerAgent.on_message                                                 *)
(***************************************************************************)
\* Lines 70-74: farmer_id = "farmer_001"
Call_on_message(c) ==
    /\ Finished(c)
    /\ call' = [call EXCEPT ![c] = Frame("on_message", "soil", farmer_001)]
    /\ UNCHANGED <<file, lastPut>>

\* Line 77: soil = self.soil_agent.analyze_soil()
on_message_soil(c) ==
    /\ call[c].op = "on_message" /\ call[c].pc = "soil"
    /\ call' = [call EXCEPT ![c].soil = analyze_soil,
                            ![c].calls = Append(@, "analyze_soil"),
                            ![c].pc = "weather"]
    /\ UNCHANGED <<file, lastPut>>

\* Line 81: weather = self.weather_agent.get_forecast(location), whatever
\* JSON value the service answers
on_message_weather(c, forecast) ==
    /\ call[c].op = "on_message" /\ call[c].pc = "weather"
    /\ call' = [call EXCEPT ![c].weather = forecast,
                            ![c].calls = Append(@, "get_forecast"),
                            ![c].pc = "market"]
    /\ UNCHANGED <<file, lastPut>>

\* Line 85: market = self.market_agent.get_prices()
on_message_market(c) ==
    /\ call[c].op = "on_message" /\ call[c].pc = "market"
    /\ call' = [call EXCEPT ![c].market = get_prices,
                            ![c].calls = Append(@, "get_prices"),
                            ![c].pc = "advice"]
    /\ UNCHANGED <<file, lastPut>>

\* Lines 89-95: advice = self.practice_agent.generate_advice(soil, weather,
\* market), then enter recommend_for_farmer(farmer_id, context)
on_message_advice(c) ==
    /\ call[c].op = "on_message" /\ call[c].pc = "advice"
    /\ call' = [call EXCEPT
          ![c].advice = generate_advice(call[c].soil, call[c].weather),
          ![c].calls = @ \o <<"generate_advice", "recommend_for_farmer">>,
          ![c].pc = "recommend"]
    /\ UNCHANGED <<file, lastPut>>

\* Lines 100-112: build the report and return it
on_message_reply(c) ==
    /\ call[c].op = "on_message" /\ call[c].pc = "compose"
    /\ call' = [call EXCEPT
          ![c].ret = Str(Report(call[c].soil, call[c].weather, call[c].market,
                                call[c].advice, call[c].personalized)),
          ![c].pc = "returned"]
    /\ UNCHANGED <<file, lastPut>>

\* Mutant of on_message_except: no try/except, the exception leaves
\* on_message.
on_message_unguarded(c, e) ==
    /\ call[c].op = "on_message"
    /\ call[c].pc \in {"soil", "weather", "market", "advice", "recommend", "compose"}
    /\ call' = [call EXCEPT ![c].ret = Raise(e),
                            ![c].raisedAt = call[c].pc,
                            ![c].exc = e,
                            ![c].pc = "raised"]
    /\ UNCHANGED <<file, lastPut>>

\* Lines 114-117: the statement on_message is at raises e (an Exception);
\* the except clause returns the error string.  (Inside recommend_for_farmer, _call_gemini's
\* exceptions are caught there, not here.)
on_message_except(c, e) ==
    /\ call[c].op = "on_message"
    /\ call[c].pc \in {"soil", "weather", "market", "advice", "recommend", "compose"}
    /\ call' = [call EXCEPT ![c].ret = Str(ErrorReply(e)),
                            ![c].raisedAt = call[c].pc,
                            ![c].exc = e,
                            ![c].pc = "returned"]
    /\ UNCHANGED <<file, lastPut>>

(***************************************************************************)
(* Specifications                                                          *)
(***************************************************************************)
\* The program as designed: one thread of control, which calls the public
\* operations one after another.
Main == "A"

Next ==
    \/ \E fid \in FarmerIds : Call_get_profile(Main, fid)
    \/ get_profile(Main)
    \/ \E fid \in FarmerIds, profile \in Profiles :
          Call_create_or_update_profile(Main, fid, profile)
    \/ create_or_update_profile(Main)
    \/ \E fid \in FarmerIds : Call_delete_profile(Main, fid)
    \/ delete_profile(Main)
    \/ _write_db_open(Main)
    \/ \E garbled \in BOOLEAN : _write_db_dump(Main, garbled)
    \/ \E written \in BOOLEAN : _write_db_fails(Main, written)
    \/ \E fid \in FarmerIds : Call_recommend_for_farmer(Main, fid)
    \/ recommend_for_farmer(Main)
    \/ \E output \in GeminiTexts : _call_gemini_returns(Main, output)
    \/ \E e \in GeminiRaises : _call_gemini_raises(Main, e)
    \/ Call_on_message(Main)
    \/ on_message_soil(Main)
    \/ \E forecast \in Forecasts : on_message_weather(Main, forecast)
    \/ on_message_market(Main)
    \/ on_message_advice(Main)
    \/ on_message_reply(Main)
    \/ \E e \in Exceptions : on_message_except(Main, e)

Spec == Init /\ [][Next]_vars

\* generate_advice as a function of its inputs: every soil and weather of
\* the input sets, with the store left alone.
NextAdvice ==
    \E soil \in Soils, weather \in Weathers :
        Call_generate_advice(Main, soil, weather)

SpecAdvice == Init /\ [][NextAdvice]_vars

\* Two threads, each making one create_or_update_profile call on the same
\* store file, their file accesses interleaved in any order.
NextConcurrent ==
    \E c \in Callers :
        \/ /\ call[c].pc = "idle"
           /\ \E fid \in FarmerIds, profile \in Profiles :
                 Call_create_or_update_profile(c, fid, profile)
        \/ create_or_update_profile(c)
        \/ _write_db_open(c)
        \/ \E garbled \in BOOLEAN : _write_db_dump(c, garbled)

SpecConcurrent == Init /\ [][NextConcurrent]_vars

(***************************************************************************)
(* Properties                                                              *)
(***************************************************************************)
ErrorPrefix == "Error: An exception occurred: "

\* The pieces of a string
Pieces(parts) == {parts[i] : i \in DOMAIN parts}

\* parts holds the pieces of sub, in order and adjacent
Embeds(parts, sub) ==
    \E i \in 0..(Len(parts) - Len(sub)) : SubSeq(parts, i + 1, i + Len(sub)) = sub

\* The report sections of a string that is a report
HasSections(parts) ==
    {"Soil Data: ", "Weather: ", "Market: "} \subseteq Pieces(parts)

\* The results the run has obtained so far, as they would show in a string
ObtainedResults(frame) ==
    {Repr(frame.soil), Repr(frame.weather)}
      \cup (IF frame.market = "" THEN {} ELSE {frame.market})

\* C1: when a step of on_message raises, on_message itself does not raise:
\* it returns the one error string made from the exception, and none of the
\* soil, weather or market results the run had obtained is in that string.
C1_RaisedStepGivesErrorString ==
    \A c \in Callers :
        (call[c].op = "on_message" /\ call[c].raisedAt # "") =>
            /\ call[c].pc = "returned"
            /\ call[c].ret.kind = "str"
            /\ call[c].ret.parts = <<ErrorPrefix, call[c].exc>>
            /\ Pieces(call[c].ret.parts) \cap ObtainedResults(call[c]) = {}

\* C1's case: the weather step raised after the soil step had succeeded.
C1_Witness ==
    /\ call[Main].op = "on_message" /\ call[Main].pc = "returned"
    /\ call[Main].raisedAt = "weather"
    /\ call[Main].soil = analyze_soil

\* The failures a sub-agent turns into a result value: recommend_for_farmer's
\* error result, generate_advice's fallback string.
ResultFailure(frame) ==
    \/ frame.personalized.kind = "error"
    \/ frame.advice # <<>> /\ frame.advice \notin RuleAdvice

\* C2 as claimed: whenever recommend_for_farmer returned an error result or
\* generate_advice returned its fallback, on_message returns only an error
\* string, not a report with Soil/Weather/Market sections.
C2_ResultFailureGivesErrorString ==
    \A c \in Callers :
        (call[c].op = "on_message" /\ call[c].pc = "returned"
           /\ ResultFailure(call[c])) =>
            /\ call[c].ret.parts[1] = ErrorPrefix
            /\ ~HasSections(call[c].ret.parts)

\* C2 as amended: on_message returns the single error string exactly when a
\* step raised; when nothing raised and recommend_for_farmer returned an
\* error result or generate_advice its fallback, on_message returns the full
\* report with its Soil/Weather/Market sections, the raw error result shown
\* in place of the recommendation and the fallback text as the general advice.
C2_ResultFailureIsEmbedded ==
    \A c \in Callers :
        (call[c].op = "on_message" /\ call[c].pc = "returned") =>
            LET parts == call[c].ret.parts
            IN  /\ (parts[1] = ErrorPrefix) <=> (call[c].raisedAt # "")
                /\ (call[c].raisedAt = "" /\ ResultFailure(call[c])) =>
                      /\ HasSections(parts)
                      /\ Embeds(parts, <<"General Advice: ">> \o call[c].advice)
                      /\ call[c].personalized.kind = "error" =>
                            parts[Len(parts)] = Repr(call[c].personalized)

\* C2's case: the farmer has no profile, nothing raised, the report is out.
C2_Witness ==
    /\ call[Main].op = "on_message" /\ call[Main].pc = "returned"
    /\ call[Main].raisedAt = ""
    /\ call[Main].personalized = NoProfileError(farmer_001)

\* The rule order of the specification, on the condition it says is
\* extracted: the condition field of a structured reading, the text of free
\* text, the raw text of a raw-output wrapper, empty for any other shape.
ClaimedCondition(weather) ==
    IF weather.shape = "dict" /\ weather.cond = "str" THEN Lower(weather.text)
    ELSE IF weather.shape = "str" THEN Lower(weather.text)
    ELSE IF weather.shape \in {"dict", "wrapper"} /\ weather.raw
    THEN Lower(weather.text)
    ELSE <<>>

ClaimedAdvice(soil, weather) ==
    LET condition == ClaimedCondition(weather)
    IN  IF soil.ph = "num" /\ soil.tenths > 70 /\ Contains(condition, rain)
        THEN PADDY
        ELSE IF Contains(condition, dry) \/ Contains(condition, sunny)
        THEN DROUGHT
        ELSE IF Contains(condition, humid) THEN PEST
        ELSE GENERIC

\* The inputs on which the claimed rule is unambiguous: soil a dict whose pH
\* is a number or missing, weather's condition field (if any) a string.
WellFormed(soil, weather) ==
    /\ soil.shape = "dict" /\ soil.ph # "str"
    /\ weather.cond # "other"

\* C3 as claimed: generate_advice returns the string the first-match rule
\* order gives on the extracted condition, for every soil reading and every
\* weather input (stated here on the well-formed ones only).
C3_AdviceFollowsRuleOrder ==
    \A c \in Callers :
        (call[c].op = "generate_advice" /\ call[c].pc = "returned"
           /\ WellFormed(call[c].soil, call[c].weather)) =>
            call[c].ret = Str(ClaimedAdvice(call[c].soil, call[c].weather))

StoreWrite(frame) == frame.op \in {"create_or_update_profile", "delete_profile"}

\* C5 as claimed: a create_or_update_profile or delete_profile that finds
\* one complete JSON object in the file leaves one complete JSON object in
\* it, and if its write failed, the object from before the operation.
C5_WriteReplacesWholeFile ==
    \A c \in Callers :
        (StoreWrite(call[c]) /\ call[c].pc \in {"returned", "raised"}
           /\ IsObject(call[c].before)) =>
            /\ IsObject(file)
            /\ call[c].pc = "raised" => file = call[c].before

\* C6 as claimed: create_or_update_profile returns exactly the profile it
\* was given, and a get_profile of a farmer_id whose last store operation was
\* a returned create_or_update_profile returns exactly that profile.
C6_UpsertThenGet ==
    \A c \in Callers :
        /\ (call[c].op = "create_or_update_profile" /\ call[c].pc = "returned") =>
              call[c].ret = Dict(call[c].profile)
        /\ (call[c].op = "get_profile" /\ call[c].pc = "returned"
              /\ lastPut[call[c].fid].kind = "dict") =>
              call[c].ret = lastPut[call[c].fid]

\* C7: delete_profile returns True exactly when farmer_id had an entry
\* before the call; once it has returned the store has no entry for farmer_id
\* and every other farmer_id's entry is as before; when it returns False the
\* file is untouched.
C7_DeleteFrame ==
    \A c \in Callers :
        (call[c].op = "delete_profile" /\ call[c].pc = "returned") =>
            LET was == _read_db(call[c].before)
                now == _read_db(file)
            IN  /\ call[c].ret = Bool(call[c].fid \in DOMAIN was)
                /\ Get(now, call[c].fid) = None
                /\ \A i \in FarmerIds \ {call[c].fid} : Get(now, i) = Get(was, i)
                /\ call[c].ret = Bool(FALSE) => file = call[c].before

\* C7's case: an existing entry was deleted and another entry is still there.
C7_Witness ==
    /\ call[Main].op = "delete_profile" /\ call[Main].pc = "returned"
    /\ call[Main].ret = Bool(TRUE)
    /\ DOMAIN _read_db(file) # {}

\* C8: a run of on_message in which nothing raises invokes soil, weather,
\* market, advice and profile recommendation once each in that order, and its
\* report holds that run's soil, weather, market and advice results and, last,
\* the recommendation text, or the raw composer result when that has no
\* recommendation field.
C8_FullReport ==
    \A c \in Callers :
        (call[c].op = "on_message" /\ call[c].pc = "returned"
           /\ call[c].raisedAt = "") =>
            LET parts == call[c].ret.parts
            IN  /\ call[c].calls = <<"analyze_soil", "get_forecast", "get_prices",
                                     "generate_advice", "recommend_for_farmer">>
                /\ call[c].ret.kind = "str"
                /\ Embeds(parts, <<"Soil Data: ", Repr(call[c].soil)>>)
                /\ Embeds(parts, <<"Weather: ", Repr(call[c].weather)>>)
                /\ Embeds(parts, <<"Market: ", get_prices>>)
                /\ Embeds(parts, <<"General Advice: ">> \o call[c].advice)
                /\ parts[Len(parts) - 1] = "Personalized Recommendation: "
                /\ parts[Len(parts)] =
                      IF call[c].personalized.kind = "recommendation"
                      THEN call[c].personalized.text
                      ELSE Repr(call[c].personalized)

\* C8's case: every step succeeded and the text service answered with text.
C8_Witness ==
    /\ call[Main].op = "on_message" /\ call[Main].pc = "returned"
    /\ call[Main].raisedAt = ""
    /\ call[Main].personalized.kind = "recommendation"
    /\ call[Main].personalized.text # ""

BothReturned(a, b) ==
    /\ a # b
    /\ call[a].pc = "returned" /\ call[b].pc = "returned"
    /\ call[a].fid # call[b].fid
    /\ call[a].ret = Dict(call[a].profile)
    /\ call[b].ret = Dict(call[b].profile)

\* C9: two concurrent create_or_update_profile calls for different
\* farmer_ids that both returned their profile: if the file was written by
\* one between the other's read and write, the file ends up undecodable or
\* holding the later writer's entry without the earlier writer's (the lost
\* update); if not, it holds both.
C9_LostUpdateWhenInterleaved ==
    \A a, b \in Callers :
        BothReturned(a, b) =>
            IF call[b].stale
            THEN \/ file = CorruptFile
                 \/ /\ IsObject(file)
                    /\ call[b].fid \in DOMAIN file.data
                    /\ call[a].fid \notin DOMAIN file.data
            ELSE call[a].stale \/ DOMAIN _read_db(file) = {call[a].fid, call[b].fid}

\* C9's case: both calls returned their profile and only one is stored.
C9_Witness ==
    /\ BothReturned("A", "B")
    /\ IsObject(file)
    /\ Cardinality(DOMAIN file.data) = 1

\* C10 as claimed: recommend_for_farmer for a farmer_id that has an entry in
\* the store, whatever the profile, calls the text service and returns a
\* recommendation or a text-service error, never 'No profile found'.
C10_StoredProfileReachesService ==
    \A c \in Callers :
        (call[c].op = "recommend_for_farmer" /\ call[c].pc = "returned"
           /\ call[c].fid \in DOMAIN _read_db(call[c].before)) =>
            /\ call[c].gemini = 1
            /\ call[c].ret # NoProfileError(call[c].fid)

====
